---- MODULE Spec2Model ----
(***************************************************************************)
(* Model of mercari_bot: the seen-set store (store.py), the dedup step of  *)
(* the scraper (scraper.py), the rate-limited, retrying Telegram notifier  *)
(* (telegram.py), the daily summary (scheduler.py) and the main loop       *)
(* (main.py).                                                              *)
(*                                                                         *)
(* Specifications:                                                         *)
(*   Spec        load, fetch, save and restart under the default settings  *)
(*   SpecSave    the same under every max_seen_items from 0 on             *)
(*   SpecEvict   the same with max_seen_items = 1                          *)
(*   SpecLoad    the same, started on a seen file of any content           *)
(*   SpecNotify  send_message / send_photo from the main thread, with a    *)
(*               clock, under every notifier setting                       *)
(*   SpecMain    _run from start to termination: one cycle over changing   *)
(*               search pages, with interrupts, errors and the shutdown    *)
(*   SpecCycles  _run over CYCLES_BEFORE_RESTART cycles and more, the      *)
(*               search pages hardly changing                              *)
(*   SpecScrape  one fetch_items call over pages with elements that fail   *)
(*               to parse                                                  *)
(*   SpecThreads send_message / send_photo from two threads, one call each *)
(*                                                                         *)
(* Python values are modelled as follows.                                  *)
(*   str            a sequence of one-character strings                    *)
(*   None (int|None) the integer None == -1                                *)
(*   None / "" / [] (title filters) the empty sequence                     *)
(*   dict           a sequence of entries in insertion order, keys unique  *)
(*   Item           [title, img_url, numeric_price, timestamp]             *)
(* hashlib.md5 is modelled as injective on its input string.               *)
(***************************************************************************)
EXTENDS Integers, Sequences, FiniteSets, TLC

\* ------------------------------------------------------------------ bounds
MaxSeenItemsCap == 2      \* max_seen_items is drawn from 0..MaxSeenItemsCap
MaxPage == 2              \* listing elements on one page snapshot
MaxPrice == 2             \* prices are 1..MaxPrice
MaxTime == 8              \* the clock stops advancing here
MaxRetriesCap == 2        \* telegram_max_retries is drawn from 0..MaxRetriesCap
MaxSends == 2             \* send_message / send_photo calls per thread

None == 0 - 1

\* time.time() at process start; _LAST_REQUEST_TS starts at 0.0, far in the past
Epoch == 2

VARIABLES
    cfg,              \* Settings
    proc,             \* "init" before load_seen_items, "running" after
    seen_items,       \* the value bound to seen_items in _run
    disk,             \* content of cfg.seen_file
    new_items,        \* return value of the last fetch_items call
    probe,            \* the last listing element the last fetch_items call went through
    last_op,          \* the last store operation and how it ended
    first_seen,       \* signatures in the order they first entered seen_items
    evicted,          \* signatures seen_items held and the last write of the file left out
    now,              \* time.time()
    last_request_ts,  \* telegram._LAST_REQUEST_TS
    lock,             \* telegram._LOCK: 0 when free, else the holding thread
    pc,               \* per thread: position in send_* / _rate_limited_post
    attempt,          \* per thread: loop variable of _rate_limited_post
    wake_at,          \* per thread: end of the current time.sleep
    outcomes,         \* per thread: results of the channel calls of the current send
    result,           \* per thread: how the last send ended
    sends,            \* per thread: number of send_* calls made
    endpoint,         \* per thread: "sendMessage" or "sendPhoto", the current send
    dispatches,       \* the last two channel calls, oldest first
    last_retry_after, \* the Retry-After header of the last 429 response, 0 when absent
    mpc,              \* position of the main thread in _run
    driver,           \* the value bound to driver in _run: "chrome" or "None"
    kw_i,             \* position of the for loop over cfg.keywords.items()
    term_i,           \* position of the for loop over terms
    kw_items,         \* the value bound to items in _run
    todo,             \* what is left of sorted(allowed_items)
    daily_counts,     \* the value bound to daily_counts in _run
    cycle_count,      \* the value bound to cycle_count in _run
    events,           \* the channel calls made for the current keyword, oldest first
    cycle_log,        \* the steps of the current cycle, oldest first
    summary,          \* the last run of the daily summary job
    shutdown,         \* the shutdown steps attempted so far
    raised,           \* TRUE when an exception is on its way out of _run
    snapshot,         \* the page snapshot of the last fetch_items call
    seen_before,      \* seen_items as the last fetch_items call found it
    market,           \* "busy": the search pages change; "steady": they hardly do
    seen_at_cycle_start,  \* seen_items as the current cycle of the main loop found it
    delivered,        \* per display name: send_photo calls that returned since daily_counts was last cleared
    unsent            \* the items fetch_items returned that send_photo has not been called for

store_vars == <<proc, seen_items, disk, new_items, probe, last_op, first_seen, evicted>>
notifier_vars == <<last_request_ts, lock, pc, attempt, wake_at, outcomes, result, sends, endpoint,
                   dispatches, last_retry_after>>
run_vars == <<mpc, driver, kw_i, term_i, kw_items, todo, daily_counts, cycle_count, events,
              cycle_log, summary, shutdown, raised, snapshot, seen_before, market, seen_at_cycle_start, delivered, unsent>>
vars == <<cfg, store_vars, now, notifier_vars, run_vars>>

\* ------------------------------------------------------------ Python helpers
Lower(ch) ==
    CASE ch = "A" -> "a"
      [] ch = "B" -> "b"
      [] OTHER -> ch

\* str.lower()
lower(s) == [i \in 1..Len(s) |-> Lower(s[i])]

\* sub in s
Contains(s, sub) ==
    \E i \in 1..(Len(s) - Len(sub) + 1) : SubSeq(s, i, i + Len(sub) - 1) = sub

\* s[start:] with Python's treatment of a negative start
PySliceFrom(s, start) ==
    LET first == IF start < 0
                 THEN (IF Len(s) + start < 0 THEN 0 ELSE Len(s) + start)
                 ELSE (IF start > Len(s) THEN Len(s) ELSE start)
    IN  SubSeq(s, first + 1, Len(s))

\* key in d
HasKey(d, k) == \E i \in 1..Len(d) : d[i].sig = k

\* d[key]
Get(d, k) == d[CHOOSE i \in 1..Len(d) : d[i].sig = k]

PutNothing(d, k, price, ts) == d

\* d[key] = value: an existing key keeps its position, a new key goes last
Put(d, k, price, ts) ==
    LET rec == [sig |-> k, price |-> price, timestamp |-> ts]
    IN  IF HasKey(d, k)
        THEN [i \in 1..Len(d) |-> IF d[i].sig = k THEN rec ELSE d[i]]
        ELSE Append(d, rec)

Keys(d) == [i \in 1..Len(d) |-> d[i].sig]

Dict(items) == [kind |-> "dict", items |-> items]
List == [kind |-> "list", items |-> <<>>]

\* ------------------------------------------------------------ configuration
\* Settings with the notifier options at d (min delay), r (retries), f (backoff)
Settings(m, d, r, f) ==
    [max_seen_items |-> m, telegram_min_delay |-> d,
     telegram_max_retries |-> r, telegram_backoff_factor |-> f]

KeywordConfig(term, lo, hi, must, excl) ==
    [term |-> term, price_min |-> lo, price_max |-> hi,
     title_must_contain |-> must, exclude_keyword |-> excl]

NoKeyword == KeywordConfig("", None, None, <<>>, <<>>)

\* cfg.keywords: one with price bounds and an excluded word, one with a required word
Keywords ==
    { KeywordConfig("lens", 2, 2, <<>>, <<"b">>),
      KeywordConfig("film", None, None, << <<"a">> >>, <<>>) }

\* -------------------------------------------------------- the page snapshot
Titles == { <<"A">>, <<"b">> }
Images == { <<"x">> }
Prices == 1..MaxPrice

\* a listing element: text is the amount after the currency symbol, None when
\* the text holds no price; ok is FALSE when a find_element call raises
Element(title, text, ok) == [title |-> title, img |-> <<"x">>, text |-> text, ok |-> ok]

Elements ==
    {Element(<<"A">>, p, TRUE) : p \in Prices}
    \cup {Element(<<"b">>, MaxPrice, TRUE), Element(<<"b">>, None, TRUE), Element(<<"b">>, None, FALSE)}

Pages == UNION {[1..n -> Elements] : n \in 0..MaxPage}

\* elements.reverse()
Reverse(s) == [i \in 1..Len(s) |-> s[Len(s) + 1 - i]]

\* ------------------------------------------------------------------ models.py
signature(title, img_url) == lower(title) \o img_url

ItemCreate(title, img_url, numeric_price, timestamp) ==
    [title |-> title, img_url |-> img_url,
     numeric_price |-> numeric_price, timestamp |-> timestamp]

\* ----------------------------------------------------------------- scraper.py
\* parse_price(text): the numeric amount, None when there is no price
parse_price(text) == text

\* the title filter of fetch_items: TRUE when the listing is skipped
TitleFiltered(title, title_must_contain) ==
    /\ title_must_contain # <<>>
    /\ ~\E i \in 1..Len(title_must_contain) :
            Contains(lower(title), lower(title_must_contain[i]))

IsNewOrNotDearer(seen, sig, numeric_price) ==
    IF seen.kind = "dict"
    THEN ~HasKey(seen.items, sig) \/ numeric_price <= Get(seen.items, sig).price
    ELSE TRUE

IsNewOrChanged(seen, sig, numeric_price) ==
    IF seen.kind = "dict"
    THEN ~HasKey(seen.items, sig) \/ numeric_price # Get(seen.items, sig).price
    ELSE TRUE

\* the condition under which fetch_items takes a listing as new or cheaper
IsNewOrCheaper(seen, sig, numeric_price) ==
    IF seen.kind = "dict"
    THEN ~HasKey(seen.items, sig) \/ numeric_price < Get(seen.items, sig).price
    ELSE TRUE   \* sig not in [] holds for a list

\* what the loop did with one element: the stage it got to, whether it was
\* appended to new_items, and what seen_items held for its signature when the
\* element was reached
Probe(el, stage, returned, before) ==
    [el |-> el, stage |-> stage, returned |-> returned, before |-> before]

NoElement == [title |-> <<>>, img |-> <<>>, text |-> None, ok |-> FALSE]
NoRecord == [price |-> None, timestamp |-> None]
NoProbe == Probe(NoElement, "none", FALSE, NoRecord)

\* seen[sig] without its key, NoRecord when seen has no such key
Stored(seen, sig) ==
    IF seen.kind = "dict" /\ HasKey(seen.items, sig)
    THEN [price |-> Get(seen.items, sig).price, timestamp |-> Get(seen.items, sig).timestamp]
    ELSE NoRecord

\* one iteration of the loop over elements; st = [seen, new, probe]
ProcessElement(el, title_must_contain, ts, st) ==
    LET before == Stored(st.seen, signature(el.title, el.img))
        skip(stage) == [st EXCEPT !.probe = Probe(el, stage, FALSE, before)]
        numeric_price == parse_price(el.text)
        item == ItemCreate(el.title, el.img, numeric_price, ts)
        sig == signature(item.title, item.img_url)
    IN  IF ~el.ok THEN skip("error")
        ELSE IF TitleFiltered(el.title, title_must_contain) THEN skip("title_filter")
        ELSE IF numeric_price = None THEN skip("no_price")
        ELSE IF IsNewOrCheaper(st.seen, sig, numeric_price)
             THEN [seen |-> IF st.seen.kind = "dict"
                            THEN Dict(Put(st.seen.items, sig, numeric_price, item.timestamp))
                            ELSE st.seen,   \* item assignment on a list raises, caught at line 128
                   new |-> Append(st.new, item),
                   probe |-> Probe(el, "dedup", TRUE, before)]
             ELSE skip("dedup")

RECURSIVE StopAtBadElement(_, _, _, _)
StopAtBadElement(elements, title_must_contain, ts, st) ==
    IF elements = <<>> \/ ~Head(elements).ok THEN st
    ELSE StopAtBadElement(Tail(elements), title_must_contain, ts,
                          ProcessElement(Head(elements), title_must_contain, ts, st))

\* lines 87-129: the loop over the elements
RECURSIVE ProcessElements(_, _, _, _)
ProcessElements(elements, title_must_contain, ts, st) ==
    IF elements = <<>> THEN st
    ELSE ProcessElements(Tail(elements), title_must_contain, ts,
                         ProcessElement(Head(elements), title_must_contain, ts, st))

\* fetch_items(keyword, seen_items, driver, price_min, price_max, title_must_contain):
\* price_min and price_max only go into the search URL
fetch_items(keyword, seen, timeout, page, price_min, price_max, title_must_contain, ts) ==
    IF timeout
    THEN [seen |-> seen, new |-> <<>>, probe |-> NoProbe]
    ELSE ProcessElements(Reverse(page), title_must_contain, ts,
                         [seen |-> seen, new |-> <<>>, probe |-> NoProbe])

\* ------------------------------------------------------------------- store.py
\* file contents: no file, text that is not JSON, a JSON object of records,
\* a JSON array, a JSON number
Missing == [kind |-> "missing", items |-> <<>>]
NotJson == [kind |-> "text", items |-> <<>>]
JsonObject(items) == [kind |-> "object", items |-> items]
JsonArray == [kind |-> "array", items |-> <<>>]
JsonNumber == [kind |-> "number", items |-> <<>>]

load_seen_items(file) ==
    CASE file.kind = "missing" -> Dict(<<>>)
      [] file.kind = "text"    -> Dict(<<>>)          \* json.JSONDecodeError
      [] file.kind = "object"  -> Dict(file.items)
      [] file.kind = "array"   -> List                \* len(data) works, data is returned
      [] file.kind = "number"  -> Dict(<<>>)          \* len(data) raises TypeError

\* trimmed_items of save_seen_items
trimmed_items(seen, max_seen_items) == PySliceFrom(seen, 0 - max_seen_items)

\* the file after save_seen_items; io is how the write went
save_seen_items(file, seen, max_seen_items, io) ==
    CASE io = "ok"          -> JsonObject(trimmed_items(seen, max_seen_items))
      [] io = "open_error"  -> file
      [] io = "write_error" -> NotJson   \* open("w") truncated the file, the dump stopped part-way

\* ------------------------------------------------------------------- threads
MainThread == 1
Threads == {1, 2}

\* ------------------------------------------------------------- initial states
\* a run of the daily summary job: whether it ran, the counts it reported and
\* how its send_message ended
Summary(ran, counts, outcome) == [ran |-> ran, counts |-> counts, outcome |-> outcome]
NoSummary == Summary(FALSE, <<>>, "none")

Op(op, outcome, kw) == [op |-> op, outcome |-> outcome, kw |-> kw]

Record(sig, price) == [sig |-> sig, price |-> price, timestamp |-> Epoch - 1]

Signatures == {signature(t, i) : t \in Titles, i \in Images}

\* documents an earlier run can have written: records with distinct signatures
Documents(n) ==
    {d \in UNION {[1..k -> {Record(s, p) : s \in Signatures, p \in Prices}] : k \in 0..n} :
        \A i, j \in 1..Len(d) : d[i].sig = d[j].sig => i = j}

\* the seen file at the first start: absent, or written by an earlier process
ProgramFiles == {Missing} \cup {JsonObject(<<Record(s, MaxPrice)>>) : s \in Signatures}

\* any content of the seen file
AnyFiles == {Missing, NotJson, JsonArray, JsonNumber} \cup {JsonObject(d) : d \in Documents(2)}

InitStore(files) ==
    /\ proc = "init"
    /\ seen_items = Dict(<<>>)
    /\ disk \in files
    /\ new_items = <<>>
    /\ probe = NoProbe
    /\ last_op = Op("none", "ok", NoKeyword)
    /\ first_seen = <<>>
    /\ evicted = {}

InitNotifier ==
    /\ now = Epoch
    /\ last_request_ts = 0
    /\ lock = 0
    /\ pc = [t \in Threads |-> "idle"]
    /\ attempt = [t \in Threads |-> 0]
    /\ wake_at = [t \in Threads |-> 0]
    /\ outcomes = [t \in Threads |-> <<>>]
    /\ result = [t \in Threads |-> "none"]
    /\ sends = [t \in Threads |-> 0]
    /\ endpoint = [t \in Threads |-> "none"]
    /\ dispatches = <<>>
    /\ last_retry_after = 0

\* _run before its first statement, the search pages as m says
InitRunIn(m) ==
    /\ market = m
    /\ seen_at_cycle_start = Dict(<<>>)
    /\ delivered = <<>>
    /\ unsent = {}
    /\ mpc = "start"
    /\ driver = "None"
    /\ kw_i = 0
    /\ term_i = 0
    /\ kw_items = <<>>
    /\ todo = <<>>
    /\ daily_counts = <<>>
    /\ cycle_count = 0
    /\ events = <<>>
    /\ cycle_log = <<>>
    /\ summary = NoSummary
    /\ shutdown = <<>>
    /\ raised = FALSE
    /\ snapshot = <<>>
    /\ seen_before = Dict(<<>>)

InitRun == InitRunIn("busy")

\* the settings of one run: max_seen_items as large as the store can get
Init ==
    /\ cfg = Settings(MaxSeenItemsCap, 1, 3, 2)
    /\ InitStore(ProgramFiles)
    /\ InitNotifier
    /\ InitRun

\* every max_seen_items from 0 on
InitSave ==
    /\ cfg \in {Settings(m, 1, 3, 2) : m \in 0..MaxSeenItemsCap}
    /\ InitStore(ProgramFiles)
    /\ InitNotifier
    /\ InitRun

\* ------------------------------------------------------------- store actions
\* _run, line 25: seen_items = load_seen_items(cfg)
LoadSeenItems ==
    /\ proc = "init"
    /\ proc' = "running"
    /\ seen_items' = load_seen_items(disk)
    /\ first_seen' = Keys(seen_items'.items)
    /\ new_items' = <<>>
    /\ probe' = NoProbe
    /\ last_op' = Op("load", "ok", NoKeyword)
    /\ UNCHANGED <<cfg, run_vars, disk, evicted, now, notifier_vars>>

\* the signatures d2 holds and d1 does not, in the order d2 holds them
Entered(d1, d2) ==
    LET fresh(e) == ~HasKey(d1, e.sig)
    IN  Keys(SelectSeq(d2, fresh))

\* one fetch_items call for a configured keyword on a page snapshot
FetchItems ==
    /\ proc = "running"
    /\ \E kw \in Keywords, timeout \in BOOLEAN :
       \E page \in (IF timeout THEN {<<>>} ELSE Pages) :
          \E r \in {fetch_items(kw.term, seen_items, timeout, page,
                                kw.price_min, kw.price_max, kw.title_must_contain, now)} :
              /\ seen_items' = r.seen
              /\ new_items' = r.new
              /\ probe' = r.probe
              /\ first_seen' = first_seen \o Entered(seen_items.items, r.seen.items)
              /\ last_op' = Op("fetch", IF timeout THEN "timeout" ELSE "ok", kw)
    /\ UNCHANGED <<cfg, run_vars, proc, disk, evicted, now, notifier_vars>>

\* the signatures of seen that the written document does not hold
LeftOut(seen, written) ==
    {seen[i].sig : i \in {j \in 1..Len(seen) : ~HasKey(written, seen[j].sig)}}

SaveAndTrimMemory ==
    /\ proc = "running"
    /\ seen_items.kind = "dict"
    /\ disk' = save_seen_items(disk, seen_items.items, cfg.max_seen_items, "ok")
    /\ seen_items' = Dict(trimmed_items(seen_items.items, cfg.max_seen_items))
    /\ last_op' = Op("save", "ok", NoKeyword)
    /\ evicted' = LeftOut(seen_items.items, disk'.items)
    /\ new_items' = <<>>
    /\ probe' = NoProbe
    /\ UNCHANGED <<cfg, run_vars, proc, first_seen, now, notifier_vars>>

\* one save_seen_items call; io is how the file write goes
SaveSeenItems ==
    /\ proc = "running"
    /\ \E io \in {"ok", "open_error", "write_error"} :
          IF seen_items.kind = "dict"
          THEN /\ disk' = save_seen_items(disk, seen_items.items, cfg.max_seen_items, io)
               /\ last_op' = Op("save", io, NoKeyword)
               /\ evicted' = (IF io = "ok" THEN LeftOut(seen_items.items, disk'.items) ELSE evicted)
          ELSE \* seen_items.items() raises AttributeError before the try block
               /\ io = "ok"
               /\ last_op' = Op("save", "raised", NoKeyword)
               /\ UNCHANGED <<disk, evicted>>
    /\ new_items' = <<>>
    /\ probe' = NoProbe
    /\ UNCHANGED <<cfg, run_vars, proc, seen_items, first_seen, now, notifier_vars>>

\* the process goes away and what it held in memory with it; the next start
\* loads the file again
Exit ==
    /\ proc = "running"
    /\ proc' = "init"
    /\ seen_items' = Dict(<<>>)
    /\ first_seen' = <<>>
    /\ new_items' = <<>>
    /\ probe' = NoProbe
    /\ last_op' = Op("exit", "ok", NoKeyword)
    /\ UNCHANGED <<cfg, run_vars, disk, evicted, now, notifier_vars>>

Next == LoadSeenItems \/ FetchItems \/ SaveSeenItems \/ Exit

Spec == Init /\ [][Next]_vars

SpecSave == InitSave /\ [][Next]_vars

\* a seen file that keeps one entry: every second signature is left out
InitEvict ==
    /\ cfg = Settings(1, 1, 3, 2)
    /\ InitStore(ProgramFiles)
    /\ InitNotifier
    /\ InitRun

SpecEvict == InitEvict /\ [][Next]_vars

\* ---------------------------------------------------------------- telegram.py
MinDelays == {1, 2}          \* telegram_min_delay, in clock ticks
BackoffFactors == {0, 1, 2}  \* telegram_backoff_factor
RetryAfters == {0, 3}        \* the Retry-After header of a 429 response, 0 when absent
Outcomes == {"ok", "429", "http_error", "network_error"}

RECURSIVE Pow(_, _)
Pow(b, e) == IF e = 0 THEN 1 ELSE b * Pow(b, e - 1)

Max(a, b) == IF a > b THEN a ELSE b

NoRemainingDelay(t_now, last_ts, min_delay) == 0

\* lines 67-69: how long the call sleeps before it posts
RemainingDelay(t_now, last_ts, min_delay) ==
    LET elapsed == t_now - last_ts
    IN  IF elapsed < min_delay THEN min_delay - elapsed ELSE 0

RetryOnEvery429(status, att, max_retries) == status = "429"

\* line 78: a 429 is retried while attempts are left
ShouldRetry(status, att, max_retries) == status = "429" /\ att < max_retries

WaitWithoutFloor(retry_after, min_delay, backoff_factor, att) ==
    retry_after * Pow(backoff_factor, att)

\* lines 79-81
wait_time(retry_after, min_delay, backoff_factor, att) ==
    Max(retry_after, min_delay) * Pow(backoff_factor, att)

\* a channel call as _raw_post issues it
Dispatch(t, at, att) == [thread |-> t, at |-> at, attempt |-> att, outcome |-> "pending"]

\* send_message / send_photo: build the payload and enter _rate_limited_post
Send(t) ==
    /\ pc[t] = "idle"
    /\ sends[t] < MaxSends
    /\ \E e \in {"sendMessage", "sendPhoto"} : endpoint' = [endpoint EXCEPT ![t] = e]
    /\ sends' = [sends EXCEPT ![t] = @ + 1]
    /\ pc' = [pc EXCEPT ![t] = "loop"]
    /\ attempt' = [attempt EXCEPT ![t] = 0]
    /\ outcomes' = [outcomes EXCEPT ![t] = <<>>]
    /\ result' = [result EXCEPT ![t] = "pending"]
    /\ UNCHANGED <<cfg, run_vars, store_vars, now, last_retry_after, last_request_ts, lock, wake_at, dispatches>>

\* line 64: for attempt in range(cfg.telegram_max_retries + 1); the function
\* returns None when the range is used up
LoopHead(t) ==
    /\ pc[t] = "loop"
    /\ IF attempt[t] <= cfg.telegram_max_retries
       THEN /\ pc' = [pc EXCEPT ![t] = "delay"]
            /\ UNCHANGED result
       ELSE /\ pc' = [pc EXCEPT ![t] = "idle"]
            /\ result' = [result EXCEPT ![t] = "returned"]
    /\ UNCHANGED <<cfg, run_vars, store_vars, now, last_retry_after, last_request_ts, lock, attempt, wake_at,
                   outcomes, sends, endpoint, dispatches>>

\* lines 66-69: take the lock and, when the last success is too recent, sleep
\* with the lock held
Delay(t) ==
    /\ pc[t] = "delay"
    /\ lock = 0
    /\ LET sleep == RemainingDelay(now, last_request_ts, cfg.telegram_min_delay)
       IN  IF sleep > 0
           THEN /\ lock' = t
                /\ wake_at' = [wake_at EXCEPT ![t] = now + sleep]
                /\ pc' = [pc EXCEPT ![t] = "sleeping"]
           ELSE /\ pc' = [pc EXCEPT ![t] = "post"]
                /\ UNCHANGED <<lock, wake_at>>
    /\ UNCHANGED <<cfg, run_vars, store_vars, now, last_retry_after, last_request_ts, attempt, outcomes, result,
                   sends, endpoint, dispatches>>

\* line 69 returns: the sleep is over, the lock is released
Wake(t) ==
    /\ pc[t] = "sleeping"
    /\ now >= wake_at[t]
    /\ lock' = 0
    /\ pc' = [pc EXCEPT ![t] = "post"]
    /\ UNCHANGED <<cfg, run_vars, store_vars, now, last_retry_after, last_request_ts, attempt, wake_at, outcomes,
                   result, sends, endpoint, dispatches>>

\* line 72, _raw_post line 22: the request goes out
Post(t) ==
    /\ pc[t] = "post"
    /\ dispatches' = (IF Len(dispatches) = 2 THEN <<dispatches[2]>> ELSE dispatches)
                        \o <<Dispatch(t, now, attempt[t])>>
    /\ pc' = [pc EXCEPT ![t] = "inflight"]
    /\ UNCHANGED <<cfg, run_vars, store_vars, now, last_retry_after, last_request_ts, lock, attempt, wake_at,
                   outcomes, result, sends, endpoint>>

\* the outcome of the call of thread t is noted on its dispatch record
Noted(ds, t, outcome) ==
    [i \in 1..Len(ds) |->
        IF ds[i].thread = t /\ ds[i].outcome = "pending"
        THEN [ds[i] EXCEPT !.outcome = outcome] ELSE ds[i]]

\* lines 72-91: the response arrives: success stamps _LAST_REQUEST_TS and
\* returns, a 429 with attempts left sleeps wait_time and goes round the loop,
\* anything else is raised to the caller
Respond(t) ==
    /\ pc[t] = "inflight"
    /\ \E status \in Outcomes, header \in RetryAfters :
          /\ status # "429" => header = 0
          /\ last_retry_after' = (IF status = "429" THEN header ELSE last_retry_after)
          /\ outcomes' = [outcomes EXCEPT ![t] = Append(@, status)]
          /\ dispatches' = Noted(dispatches, t, status)
          /\ IF status = "ok"
             THEN /\ lock = 0
                  /\ last_request_ts' = now
                  /\ pc' = [pc EXCEPT ![t] = "idle"]
                  /\ result' = [result EXCEPT ![t] = "returned"]
                  /\ UNCHANGED wake_at
             ELSE IF ShouldRetry(status, attempt[t], cfg.telegram_max_retries)
             THEN /\ wake_at' = [wake_at EXCEPT ![t] =
                        now + wait_time(header, cfg.telegram_min_delay,
                                        cfg.telegram_backoff_factor, attempt[t])]
                  /\ pc' = [pc EXCEPT ![t] = "backoff"]
                  /\ UNCHANGED <<last_request_ts, result>>
             ELSE /\ pc' = [pc EXCEPT ![t] = "idle"]
                  /\ result' = [result EXCEPT ![t] = "raised"]
                  /\ UNCHANGED <<last_request_ts, wake_at>>
    /\ UNCHANGED <<cfg, run_vars, store_vars, now, lock, attempt, sends, endpoint>>

\* lines 88-89: the back-off sleep is over, continue with the next attempt
BackoffDone(t) ==
    /\ pc[t] = "backoff"
    /\ now >= wake_at[t]
    /\ attempt' = [attempt EXCEPT ![t] = @ + 1]
    /\ pc' = [pc EXCEPT ![t] = "loop"]
    /\ UNCHANGED <<cfg, run_vars, store_vars, now, last_retry_after, last_request_ts, lock, wake_at, outcomes,
                   result, sends, endpoint, dispatches>>

\* time passes
Tick ==
    /\ now < MaxTime
    /\ now' = now + 1
    /\ UNCHANGED <<cfg, run_vars, store_vars, notifier_vars>>

Notifier(t) ==
    Send(t) \/ LoopHead(t) \/ Delay(t) \/ Wake(t) \/ Post(t) \/ Respond(t) \/ BackoffDone(t)

\* the notifier under every setting, called from the main thread only
InitNotify ==
    /\ cfg \in {Settings(MaxSeenItemsCap, d, r, f) :
                   d \in MinDelays, r \in 0..MaxRetriesCap, f \in BackoffFactors}
    /\ InitStore({Missing})
    /\ InitNotifier
    /\ InitRun

NextNotify == Notifier(MainThread) \/ Tick

SpecNotify == InitNotify /\ [][NextNotify]_vars

\* send_message / send_photo called once from each thread, at any time
InitThreads ==
    /\ cfg = Settings(MaxSeenItemsCap, 2, 1, 1)
    /\ InitStore({Missing})
    /\ InitNotifier
    /\ InitRun

\* one send_message / send_photo call of thread t, from entry to return
OneCall(t) ==
    \/ (sends[t] = 0 /\ Send(t))
    \/ LoopHead(t) \/ Delay(t) \/ Wake(t) \/ Post(t) \/ Respond(t) \/ BackoffDone(t)

NextThreads == (\E t \in Threads : OneCall(t)) \/ Tick

SpecThreads == InitThreads /\ [][NextThreads]_vars

\* the seen file holds anything; the settings are the defaults
InitLoad ==
    /\ cfg = Settings(MaxSeenItemsCap, 1, 3, 2)
    /\ InitStore(AnyFiles)
    /\ InitNotifier
    /\ InitRun

SpecLoad == InitLoad /\ [][Next]_vars

\* -------------------------------------------------------------------- main.py
\* main.py is written against a KeywordConfig with a list of terms, a
\* fetch_items with a seventh parameter exclude_keyword and a
\* send_daily_summary without keywords_map; config.py, scraper.py and
\* scheduler.py declare term, six parameters and three parameters. The calls
\* are modelled with the caller's arguments bound to the parameters the callee
\* declares, and the callee's body as it stands.
CYCLES_BEFORE_RESTART == 10

MaxCycles == 10           \* full cycles of the main loop per process
MaxBusyCycles == 1        \* full cycles per process while the search pages hold listings

\* kw_cfg.terms: the search terms of a keyword, one or more
terms(kw_cfg) == kw_cfg.term

\* cfg.keywords.items(), in insertion order
RunKeywords ==
    << [display_name |-> "Lens", kw_cfg |-> KeywordConfig(<<"lens", "glass">>, 2, 2, <<>>, <<"b">>)],
       [display_name |-> "Film", kw_cfg |-> KeywordConfig(<<"film">>, None, None, << <<"a">> >>, <<>>)] >>

\* max_telegram_messages_per_item: no cap, nothing, one per batch
MsgCaps == {None, 0, 1}

\* page snapshots, newest listing first. busy: nothing, one listing, a listing
\* and its earlier dearer sighting, the same sighting twice, two listings of
\* which the second keyword lets one through. steady: nothing, or one listing
\* at its lowest price.
RunPages(m) ==
    IF m = "busy"
    THEN { <<>>,
           <<Element(<<"A">>, 2, TRUE)>>,
           <<Element(<<"A">>, 1, TRUE), Element(<<"A">>, 2, TRUE)>>,
           <<Element(<<"A">>, 2, TRUE), Element(<<"A">>, 2, TRUE)>>,
           <<Element(<<"b">>, 2, TRUE), Element(<<"A">>, 1, TRUE)>> }
    ELSE { <<>>, <<Element(<<"A">>, 1, TRUE)>> }

\* how many full cycles of one process are followed
CycleLimit(m) == IF m = "busy" THEN MaxBusyCycles ELSE MaxCycles

\* Settings as _run reads them
RunSettings(m, max_msgs) ==
    [max_seen_items |-> m, telegram_min_delay |-> 1,
     telegram_max_retries |-> 3, telegram_backoff_factor |-> 2,
     max_telegram_messages_per_item |-> max_msgs, keywords |-> RunKeywords]

\* s[:n] for n >= 0
PySliceTo(s, n) == SubSeq(s, 1, IF n > Len(s) THEN Len(s) ELSE n)

\* line 57
allowed_items(found, max_msgs_cfg) ==
    IF max_msgs_cfg = None THEN found ELSE PySliceTo(found, max_msgs_cfg)

\* sorted() puts x after the elements whose key is not greater
RECURSIVE Insert(_, _)
Insert(sorted_items, x) ==
    IF sorted_items = <<>> THEN <<x>>
    ELSE IF x.timestamp < Head(sorted_items).timestamp
         THEN <<x>> \o sorted_items
         ELSE <<Head(sorted_items)>> \o Insert(Tail(sorted_items), x)

RECURSIVE Sorted(_)
Sorted(s) == IF s = <<>> THEN <<>> ELSE Insert(Sorted(SubSeq(s, 1, Len(s) - 1)), s[Len(s)])

NewestFirst(allowed) == Reverse(Sorted(allowed))

\* line 62: sorted(allowed_items, key=lambda x: x.timestamp)
sorted_by_timestamp(allowed) == Sorted(allowed)

\* daily_counts[display_name] += n on a defaultdict(int)
AddCount(counts, display_name, n) ==
    IF \E i \in 1..Len(counts) : counts[i].name = display_name
    THEN [i \in 1..Len(counts) |->
            IF counts[i].name = display_name
            THEN [counts[i] EXCEPT !.count = @ + n] ELSE counts[i]]
    ELSE Append(counts, [name |-> display_name, count |-> n])

\* a send_message / send_photo call as _run sees it: it returns, or
\* _rate_limited_post raises a RequestException
SendResults == {"returned", "raised"}

NoItem == ItemCreate(<<>>, <<>>, None, None)

\* a channel call made for a keyword
Event(kind, item, outcome) == [kind |-> kind, item |-> item, outcome |-> outcome]

AbortOnPhotoFailure(outcome, rest) ==
    IF outcome = "raised" THEN "except"
    ELSE IF rest = <<>> THEN "done_msg" ELSE "photo"

\* lines 62-72: where the loop over the items goes after send_photo
AfterPhoto(outcome, rest) ==
    IF outcome = "raised" THEN "fallback"          \* line 65
    ELSE IF rest = <<>> THEN "done_msg" ELSE "photo"

RestartEveryCycle(count) == TRUE

\* line 91
RestartDue(count) == count % CYCLES_BEFORE_RESTART = 0

\* time.time() after a sleep
Later(t_now) == IF t_now < MaxTime THEN t_now + 1 ELSE t_now

\* the keyword the for loop of line 42 is at
Keyword == cfg.keywords[kw_i]

\* positions inside the try block of _run
InTry == {"for_kw", "for_term", "announce", "photo", "fallback", "done_msg",
          "kw_sleep", "save", "run_pending", "cycle_sleep"}

\* lines 24-38: load the seen-set, start the browser, register the summary job
RunStart ==
    /\ mpc = "start" /\ proc = "init"
    /\ proc' = "running"
    /\ seen_items' = load_seen_items(disk)
    /\ first_seen' = Keys(seen_items'.items)
    /\ last_op' = Op("load", "ok", NoKeyword)
    /\ \E d \in {"chrome", "None"} :
          /\ driver' = d
          /\ mpc' = (IF d = "None" THEN "exit1" ELSE "for_kw")   \* sys.exit(1), line 33
    /\ kw_i' = 1
    /\ daily_counts' = <<>>
    /\ cycle_count' = 0
    /\ UNCHANGED <<cfg, disk, new_items, probe, evicted, now, notifier_vars, term_i, kw_items, todo,
                   events, cycle_log, summary, shutdown, raised, snapshot, seen_before, market, seen_at_cycle_start, delivered, unsent>>

\* lines 42-47: the next keyword, or the end of the for loop
ForKeyword ==
    /\ mpc = "for_kw"
    /\ IF kw_i <= Len(cfg.keywords)
       THEN /\ mpc' = "for_term"
            /\ term_i' = 1
            /\ kw_items' = <<>>
            /\ events' = <<>>
            /\ cycle_log' = (IF kw_i = 1 THEN <<>> ELSE cycle_log)
            /\ seen_at_cycle_start' = (IF kw_i = 1 THEN seen_items ELSE seen_at_cycle_start)
       ELSE /\ mpc' = "save"
            /\ UNCHANGED <<term_i, kw_items, events, cycle_log, seen_at_cycle_start>>
    /\ UNCHANGED <<cfg, store_vars, now, notifier_vars, driver, kw_i, todo, daily_counts,
                   cycle_count, summary, shutdown, raised, snapshot, seen_before, market,
                   delivered, unsent>>

\* lines 48-55, 80-81: search the next term and add what it returns to items;
\* after the last term go on to the batch, if there is one
ForTerm ==
    /\ mpc = "for_term"
    /\ IF term_i <= Len(terms(Keyword.kw_cfg))
       THEN \E way \in {"ok", "timeout", "raised"} :
            \E page \in (IF way = "ok" THEN RunPages(market) ELSE {<<>>}) :
            \E r \in {fetch_items(terms(Keyword.kw_cfg)[term_i], seen_items, way = "timeout", page,
                                  Keyword.kw_cfg.price_min, Keyword.kw_cfg.price_max,
                                  Keyword.kw_cfg.title_must_contain, now)} :
               IF way = "raised"    \* driver.get raises, scraper.py line 65
               THEN /\ mpc' = "except"
                    /\ UNCHANGED <<seen_items, new_items, first_seen, last_op, kw_items,
                                   term_i, now, cycle_log, unsent>>
               ELSE /\ seen_items' = r.seen
                    /\ unsent' = unsent \cup {r.new[i] : i \in 1..Len(r.new)}
                    /\ new_items' = r.new
                    /\ first_seen' = first_seen \o Entered(seen_items.items, r.seen.items)
                    /\ last_op' = Op("fetch", way, Keyword.kw_cfg)
                    /\ kw_items' = kw_items \o r.new
                    /\ term_i' = term_i + 1
                    /\ now' = (IF Len(terms(Keyword.kw_cfg)) > 1 THEN Later(now) ELSE now)
                    /\ cycle_log' = Append(cycle_log, Keyword.display_name)
                    /\ UNCHANGED mpc
       ELSE /\ mpc' = (IF kw_items # <<>> THEN "announce" ELSE "kw_sleep")
            /\ UNCHANGED <<seen_items, new_items, first_seen, last_op, kw_items,
                           term_i, now, cycle_log, unsent>>
    /\ UNCHANGED <<cfg, proc, disk, probe, evicted, notifier_vars, driver, kw_i, todo, daily_counts,
                   cycle_count, events, summary, shutdown, raised, snapshot, seen_before, market,
                   seen_at_cycle_start, delivered>>

\* lines 56-60, 73-74: announce the batch, count it, sort what may be sent
Announce ==
    /\ mpc = "announce"
    /\ \E out \in SendResults :
          /\ events' = Append(events, Event("announce", NoItem, out))
          /\ IF out = "raised"
             THEN /\ mpc' = "except"
                  /\ UNCHANGED <<daily_counts, todo>>
             ELSE LET allowed == allowed_items(kw_items, cfg.max_telegram_messages_per_item)
                  IN  /\ daily_counts' = AddCount(daily_counts, Keyword.display_name, Len(allowed))
                      /\ todo' = sorted_by_timestamp(allowed)
                      /\ mpc' = (IF allowed = <<>> THEN "done_msg" ELSE "photo")
    /\ UNCHANGED <<cfg, store_vars, now, notifier_vars, driver, kw_i, term_i, kw_items,
                   cycle_count, cycle_log, summary, shutdown, raised, snapshot, seen_before, market, seen_at_cycle_start, delivered, unsent>>

\* lines 62-66, 71-72: send_photo for the next item
Photo ==
    /\ mpc = "photo" /\ todo # <<>>
    /\ \E out \in SendResults :
          /\ events' = Append(events, Event("photo", Head(todo), out))
          /\ mpc' = AfterPhoto(out, Tail(todo))
          /\ todo' = (IF out = "raised" THEN todo ELSE Tail(todo))
          /\ delivered' = (IF out = "returned"
                           THEN AddCount(delivered, Keyword.display_name, 1)
                           ELSE delivered)
    /\ unsent' = unsent \ {Head(todo)}
    /\ UNCHANGED <<cfg, store_vars, now, notifier_vars, driver, kw_i, term_i, kw_items,
                   daily_counts, cycle_count, cycle_log, summary, shutdown, raised,
                   snapshot, seen_before, market, seen_at_cycle_start>>

\* lines 67-70: tell the chat that the photo failed; a failure of that is logged
Fallback ==
    /\ mpc = "fallback"
    /\ \E out \in SendResults :
          events' = Append(events, Event("fallback", Head(todo), out))
    /\ todo' = Tail(todo)
    /\ mpc' = (IF Tail(todo) = <<>> THEN "done_msg" ELSE "photo")
    /\ UNCHANGED <<cfg, store_vars, now, notifier_vars, driver, kw_i, term_i, kw_items,
                   daily_counts, cycle_count, cycle_log, summary, shutdown, raised,
                   snapshot, seen_before, market, seen_at_cycle_start, delivered, unsent>>

\* lines 76-79: the completion message
DoneMsg ==
    /\ mpc = "done_msg"
    /\ \E out \in SendResults :
          /\ events' = Append(events, Event("done", NoItem, out))
          /\ mpc' = (IF out = "raised" THEN "except" ELSE "kw_sleep")
    /\ UNCHANGED <<cfg, store_vars, now, notifier_vars, driver, kw_i, term_i, kw_items, todo,
                   daily_counts, cycle_count, cycle_log, summary, shutdown, raised,
                   snapshot, seen_before, market, seen_at_cycle_start, delivered, unsent>>

\* line 83: time.sleep(cfg.keyword_batch_delay), then the next keyword
KwSleep ==
    /\ mpc = "kw_sleep"
    /\ now' = Later(now)
    /\ kw_i' = kw_i + 1
    /\ mpc' = "for_kw"
    /\ UNCHANGED <<cfg, store_vars, notifier_vars, driver, term_i, kw_items, todo,
                   daily_counts, cycle_count, events, cycle_log, summary, shutdown, raised,
                   snapshot, seen_before, market, seen_at_cycle_start, delivered, unsent>>

\* save_seen_items as _run calls it: the file afterwards, and whether the call
\* raised (seen_items.items() on a list, before the try block of store.py)
SaveCall(io) ==
    IF seen_items.kind = "dict"
    THEN [disk |-> save_seen_items(disk, seen_items.items, cfg.max_seen_items, io), outcome |-> io]
    ELSE [disk |-> disk, outcome |-> "raised"]

\* line 85: the save at the end of the cycle
CycleSave ==
    /\ mpc = "save"
    /\ \E io \in {"ok", "open_error", "write_error"} :
       \E r \in {SaveCall(io)} :
          /\ disk' = r.disk
          /\ last_op' = Op("save", r.outcome, NoKeyword)
          /\ evicted' = (IF r.outcome = "ok" THEN LeftOut(seen_items.items, r.disk.items) ELSE evicted)
          /\ mpc' = (IF r.outcome = "raised" THEN "except" ELSE "run_pending")
    /\ cycle_log' = Append(cycle_log, "save")
    /\ UNCHANGED <<cfg, proc, seen_items, new_items, probe, first_seen, now, notifier_vars,
                   driver, kw_i, term_i, kw_items, todo, daily_counts, cycle_count, events,
                   summary, shutdown, raised, snapshot, seen_before, market, seen_at_cycle_start, delivered, unsent>>

\* line 86, scheduler.py lines 11-27: schedule.run_pending(); when the daily
\* summary is due it is sent and daily_counts is cleared
RunPending ==
    /\ mpc = "run_pending"
    /\ cycle_log' = Append(cycle_log, "run_pending")
    /\ \E due \in BOOLEAN, out \in SendResults :
          IF due
          THEN /\ summary' = Summary(TRUE, daily_counts, out)
               /\ IF out = "returned"
                  THEN /\ daily_counts' = <<>>          \* scheduler.py line 26
                       /\ delivered' = <<>>
                       /\ mpc' = "cycle_sleep"
                  ELSE /\ mpc' = "except"               \* line 25 raised
                       /\ UNCHANGED <<daily_counts, delivered>>
          ELSE /\ out = "returned"
               /\ summary' = NoSummary
               /\ mpc' = "cycle_sleep"
               /\ UNCHANGED <<daily_counts, delivered>>
    /\ UNCHANGED <<cfg, store_vars, now, notifier_vars, driver, kw_i, term_i, kw_items, todo,
                   cycle_count, events, shutdown, raised, snapshot, seen_before, market,
                   seen_at_cycle_start, unsent>>

\* lines 87-96: sleep, count the cycle, and every CYCLES_BEFORE_RESTART cycles
\* replace the browser session
CycleSleep ==
    /\ mpc = "cycle_sleep"
    /\ cycle_count < CycleLimit(market)
    /\ now' = Later(now)
    /\ cycle_count' = cycle_count + 1
    /\ kw_i' = 1
    /\ IF RestartDue(cycle_count')
       THEN \E quit \in {"ok", "raised"}, d \in {"chrome", "None"} :
               IF quit = "raised"                        \* driver.quit() raises, line 92
               THEN /\ d = "chrome"
                    /\ mpc' = "except"
                    /\ cycle_log' = Append(cycle_log, "sleep")
                    /\ UNCHANGED <<driver, shutdown>>
               ELSE /\ driver' = d
                    /\ cycle_log' = cycle_log \o <<"sleep", "restart">>
                    /\ IF d = "None"
                       THEN /\ mpc' = "finally_save"     \* break, line 96
                            /\ shutdown' = <<"break">>
                       ELSE /\ mpc' = "for_kw"
                            /\ UNCHANGED shutdown
       ELSE /\ mpc' = "for_kw"
            /\ cycle_log' = Append(cycle_log, "sleep")
            /\ UNCHANGED <<driver, shutdown>>
    /\ UNCHANGED <<cfg, store_vars, notifier_vars, term_i, kw_items, todo, daily_counts,
                   events, summary, raised, snapshot, seen_before, market, seen_at_cycle_start, delivered, unsent>>

\* lines 98-99: KeyboardInterrupt anywhere in the try block
Interrupt ==
    /\ mpc \in InTry
    /\ mpc' = "finally_save"
    /\ shutdown' = <<"interrupt">>
    /\ UNCHANGED <<cfg, store_vars, now, notifier_vars, driver, kw_i, term_i, kw_items, todo,
                   daily_counts, cycle_count, events, cycle_log, summary, raised,
                   snapshot, seen_before, market, seen_at_cycle_start, delivered, unsent>>

\* lines 100-103: any other exception: tell the chat; a failure of that
\* send_message leaves the handler as an exception
Except ==
    /\ mpc = "except"
    /\ \E out \in SendResults :
          /\ shutdown' = <<"error", IF out = "raised" THEN "error_message_failed" ELSE "error_message">>
          /\ raised' = (out = "raised")
    /\ mpc' = "finally_save"
    /\ UNCHANGED <<cfg, store_vars, now, notifier_vars, driver, kw_i, term_i, kw_items, todo,
                   daily_counts, cycle_count, events, cycle_log, summary, snapshot, seen_before, market, seen_at_cycle_start, delivered, unsent>>

\* line 105
FinallySave ==
    /\ mpc = "finally_save"
    /\ \E io \in {"ok", "open_error", "write_error"} :
       \E r \in {SaveCall(io)} :
          /\ disk' = r.disk
          /\ last_op' = Op("save", r.outcome, NoKeyword)
          /\ evicted' = (IF r.outcome = "ok" THEN LeftOut(seen_items.items, r.disk.items) ELSE evicted)
          /\ shutdown' = Append(shutdown, IF r.outcome = "ok" THEN "save" ELSE "save_failed")
          /\ IF r.outcome = "raised"
             THEN mpc' = "terminated" /\ raised' = TRUE
             ELSE mpc' = "finally_quit" /\ UNCHANGED raised
    /\ UNCHANGED <<cfg, proc, seen_items, new_items, probe, first_seen, now, notifier_vars,
                   driver, kw_i, term_i, kw_items, todo, daily_counts, cycle_count, events,
                   cycle_log, summary, snapshot, seen_before, market, seen_at_cycle_start, delivered, unsent>>

\* lines 106-108: driver.quit() is not guarded
FinallyQuit ==
    /\ mpc = "finally_quit"
    /\ IF driver = "None"
       THEN /\ mpc' = "finally_stop"
            /\ UNCHANGED <<shutdown, raised>>
       ELSE \E quit \in {"ok", "raised"} :
               IF quit = "raised"
               THEN /\ shutdown' = Append(shutdown, "quit_failed")
                    /\ raised' = TRUE
                    /\ mpc' = "terminated"
               ELSE /\ shutdown' = Append(shutdown, "quit")
                    /\ mpc' = "finally_stop"
                    /\ UNCHANGED raised
    /\ UNCHANGED <<cfg, store_vars, now, notifier_vars, driver, kw_i, term_i, kw_items, todo,
                   daily_counts, cycle_count, events, cycle_log, summary, snapshot, seen_before, market, seen_at_cycle_start, delivered, unsent>>

\* lines 109-110: the stopped message is not guarded either
FinallyStop ==
    /\ mpc = "finally_stop"
    /\ \E out \in SendResults :
          /\ shutdown' = Append(shutdown, IF out = "raised" THEN "stopped_failed" ELSE "stopped")
          /\ raised' = (raised \/ out = "raised")
    /\ mpc' = "terminated"
    /\ UNCHANGED <<cfg, store_vars, now, notifier_vars, driver, kw_i, term_i, kw_items, todo,
                   daily_counts, cycle_count, events, cycle_log, summary, snapshot, seen_before, market, seen_at_cycle_start, delivered, unsent>>

\* _run under every per-item message cap, the search pages holding listings
InitMain ==
    /\ cfg \in {RunSettings(MaxSeenItemsCap, max_msgs) : max_msgs \in MsgCaps}
    /\ InitStore(ProgramFiles)
    /\ InitNotifier
    /\ InitRun

NextMain ==
    \/ RunStart \/ ForKeyword \/ ForTerm \/ Announce \/ Photo \/ Fallback \/ DoneMsg
    \/ KwSleep \/ CycleSave \/ RunPending \/ CycleSleep \/ Interrupt \/ Except
    \/ FinallySave \/ FinallyQuit \/ FinallyStop

SpecMain == InitMain /\ [][NextMain]_vars

\* _run over many cycles, the search pages hardly changing
InitCycles ==
    /\ cfg = RunSettings(MaxSeenItemsCap, None)
    /\ InitStore(ProgramFiles)
    /\ InitNotifier
    /\ InitRunIn("steady")

SpecCycles == InitCycles /\ [][NextMain]_vars

\* ------------------------------------------------- fetch_items on its own
\* fetch_items called on a seen-set loaded from a file of at most one record
InitScrape ==
    /\ cfg = Settings(MaxSeenItemsCap, 1, 3, 2)
    /\ proc = "running"
    /\ disk \in {JsonObject(d) : d \in Documents(1)}
    /\ seen_items = load_seen_items(disk)
    /\ first_seen = Keys(seen_items.items)
    /\ evicted = {}
    /\ new_items = <<>>
    /\ probe = NoProbe
    /\ last_op = Op("load", "ok", NoKeyword)
    /\ InitNotifier
    /\ InitRun

\* one fetch_items call, with the page it saw and the seen-set it was given
Scrape ==
    /\ proc = "running"
    /\ last_op.op = "load"        \* the first call after the load
    /\ \E kw \in Keywords, timeout \in BOOLEAN :
       \E page \in (IF timeout THEN {<<>>} ELSE Pages) :
          \E r \in {fetch_items(kw.term, seen_items, timeout, page,
                                kw.price_min, kw.price_max, kw.title_must_contain, now)} :
              /\ snapshot' = page
              /\ seen_before' = seen_items
              /\ seen_items' = r.seen
              /\ new_items' = r.new
              /\ probe' = r.probe
              /\ first_seen' = first_seen \o Entered(seen_items.items, r.seen.items)
              /\ last_op' = Op("fetch", IF timeout THEN "timeout" ELSE "ok", kw)
    /\ UNCHANGED <<cfg, proc, disk, evicted, now, notifier_vars, mpc, driver, kw_i, term_i, kw_items,
                   todo, daily_counts, cycle_count, events, cycle_log, summary, shutdown,
                   raised, market, seen_at_cycle_start, delivered, unsent>>

SpecScrape == InitScrape /\ [][Scrape]_vars

\* --------------------------------------------------------------- properties
Fetched == last_op.op = "fetch" /\ probe.stage # "none"
ProbeSig == signature(probe.el.title, probe.el.img)
ProbePrice == parse_price(probe.el.text)
ProbeItem == ItemCreate(probe.el.title, probe.el.img, ProbePrice, now)
ProbeRejected == ~probe.returned /\ Stored(seen_items, ProbeSig) = probe.before
Saved(outcome) == last_op.op = "save" /\ last_op.outcome = outcome

\* C1: a listing that reaches the dedup step is returned and recorded with its
\* price exactly when its signature is absent from the seen-set or its price is
\* strictly below the stored one; otherwise the stored entry stays as it was.
DedupAcceptanceRule ==
    (Fetched /\ probe.stage = "dedup") =>
        /\ probe.returned <=> (probe.before = NoRecord \/ ProbePrice < probe.before.price)
        /\ probe.returned =>
              /\ new_items # <<>>
              /\ new_items[Len(new_items)] = ProbeItem
              /\ Stored(seen_items, ProbeSig) = [price |-> ProbePrice, timestamp |-> ProbeItem.timestamp]
        /\ ~probe.returned => Stored(seen_items, ProbeSig) = probe.before

\* a re-sighting at the stored price was rejected
EqualPriceRejected ==
    /\ Fetched /\ probe.stage = "dedup"
    /\ ~probe.returned
    /\ probe.before.price = ProbePrice

\* C2: within one process run the in-memory seen-set never loses a signature
\* and never raises the price it holds for one.
PriceNeverIncreases ==
    [][(proc = "running" /\ proc' = "running") =>
          \A i \in 1..Len(seen_items.items) :
             LET s == seen_items.items[i].sig
             IN  /\ HasKey(seen_items'.items, s)
                 /\ Get(seen_items'.items, s).price <= seen_items.items[i].price]_vars

\* a stored price was lowered by a cheaper re-sighting
PriceLowered ==
    /\ Fetched /\ probe.returned
    /\ probe.before # NoRecord
    /\ Stored(seen_items, ProbeSig).price < probe.before.price

\* C3: after a save that completed without I/O error the file holds at most
\* max_seen_items entries.
SavedSizeWithinMax ==
    Saved("ok") => disk.kind = "object" /\ Len(disk.items) <= cfg.max_seen_items

\* C4: when the store holds more than max_seen_items entries, a save persists
\* exactly the max_seen_items most recently first-inserted entries, in
\* insertion order and as the store holds them.
FifoEviction ==
    (Saved("ok") /\ Len(first_seen) > cfg.max_seen_items) =>
        LET n == Len(first_seen)
            kept == SubSeq(first_seen, n - cfg.max_seen_items + 1, n)
        IN  /\ Keys(disk.items) = kept
            /\ \A i \in 1..Len(disk.items) :
                  disk.items[i] = Get(seen_items.items, disk.items[i].sig)

\* C5: a save that fails with an I/O error leaves the file holding the last
\* version written, so that a load after it returns what a load before it
\* would have returned.
FailedSaveKeepsFile ==
    [][(last_op'.op = "save" /\ last_op'.outcome \in {"open_error", "write_error"})
          => load_seen_items(disk') = load_seen_items(disk)]_vars

\* C6: load_seen_items returns a mapping whatever the file holds, the empty
\* one for a missing file and for a file that is not JSON.
LoadReturnsMapping ==
    last_op.op = "load" =>
        /\ seen_items.kind = "dict"
        /\ disk.kind \in {"missing", "text"} => seen_items = Dict(<<>>)

\* C7: a listing whose price is below price_min or above price_max of the
\* keyword is neither returned nor recorded.
OutOfBoundsRejected ==
    (/\ Fetched /\ probe.el.ok /\ ProbePrice # None
     /\ \/ (last_op.kw.price_min # None /\ ProbePrice < last_op.kw.price_min)
        \/ (last_op.kw.price_max # None /\ ProbePrice > last_op.kw.price_max))
    => ProbeRejected

\* C8: a listing is neither returned nor recorded when no required word occurs
\* in its title (case-insensitively) or the excluded word occurs in it; a
\* listing passing both filters goes on to price parsing and dedup.
TitleFiltersReject ==
    (Fetched /\ probe.el.ok) =>
        LET must == last_op.kw.title_must_contain
            excl == last_op.kw.exclude_keyword
            title == lower(probe.el.title)
            lacks == must # <<>> /\ \A i \in 1..Len(must) : ~Contains(title, lower(must[i]))
            excluded == excl # <<>> /\ Contains(title, lower(excl))
        IN  IF lacks \/ excluded
            THEN ProbeRejected
            ELSE probe.stage \in {"no_price", "dedup"}

TwoCalls == Len(dispatches) = 2 /\ dispatches[1].thread = dispatches[2].thread
Gap == dispatches[2].at - dispatches[1].at

\* C9 as claimed: of two consecutive channel calls of one thread, the later is
\* dispatched at least telegram_min_delay after the earlier, however the
\* earlier one ended.
MinDelayBetweenCalls ==
    TwoCalls => Gap >= cfg.telegram_min_delay

\* C9: of two consecutive channel calls of one thread, the later is dispatched
\* at least telegram_min_delay after the earlier when the earlier succeeded,
\* and when the later is the retry of a 429 under a back-off factor of 1 or more.
MinDelayAfterSuccessOrBackoff ==
    (/\ TwoCalls
     /\ \/ dispatches[1].outcome = "ok"
        \/ dispatches[2].attempt > 0 /\ cfg.telegram_backoff_factor >= 1)
    => Gap >= cfg.telegram_min_delay

\* a call went out exactly telegram_min_delay after a successful one, having
\* slept for the rest of the delay
SleptOutTheDelay ==
    /\ TwoCalls
    /\ dispatches[1].outcome = "ok"
    /\ dispatches[2].attempt = 0
    /\ Gap = cfg.telegram_min_delay
    /\ last_request_ts > dispatches[1].at

\* C10: one send makes at most telegram_max_retries + 1 channel calls, each
\* further call follows a 429, it returns only after a successful call, and a
\* failure that is not a 429, or a 429 on the last attempt, is raised at once.
RetryProtocol ==
    \A t \in Threads :
        LET o == outcomes[t]
            n == Len(o)
            over == pc[t] = "idle" /\ sends[t] > 0
        IN  /\ n <= cfg.telegram_max_retries + 1
            /\ \A i \in 1..(n - 1) : o[i] = "429"
            /\ result[t] = "returned" => n > 0 /\ o[n] = "ok"
            /\ over => n > 0
            /\ (n > 0 /\ o[n] \in {"http_error", "network_error"}) => over /\ result[t] = "raised"
            /\ (n = cfg.telegram_max_retries + 1 /\ o[n] = "429") => over /\ result[t] = "raised"
            /\ (n > 0 /\ o[n] = "429" /\ n <= cfg.telegram_max_retries) => ~over

\* a send used up its retries: every attempt got a 429 and the last was raised
RetriesExhausted ==
    /\ outcomes[MainThread] = [i \in 1..(cfg.telegram_max_retries + 1) |-> "429"]
    /\ cfg.telegram_max_retries >= 1
    /\ result[MainThread] = "raised"
Terminated == mpc = "terminated"
Attempted(step) == \E i \in 1..Len(shutdown) : shutdown[i] = step

\* C11: however the main loop is left, _run calls save_seen_items and after it
\* send_message with the stopped text before it ends.
FinalSaveThenStopped ==
    Terminated =>
        \E i, j \in 1..Len(shutdown) :
            /\ i < j
            /\ shutdown[i] \in {"save", "save_failed"}
            /\ shutdown[j] \in {"stopped", "stopped_failed"}

IsPhoto(e) == e.kind = "photo"

\* the items handed to send_photo for the current keyword, in the order of the calls
PhotoItems(evs) == LET ph == SelectSeq(evs, IsPhoto) IN [i \in 1..Len(ph) |-> ph[i].item]

\* C12: a send_photo that fails, and a fallback message that fails after it, do
\* not end the batch: the loop goes on to the next item, every item allowed
\* for the batch has been handed to send_photo once when the completion
\* message is due, and after the batch the loop goes to the next keyword.
PhotoFailureRecovered ==
    [][/\ (mpc \in {"photo", "fallback"} /\ mpc' # "finally_save") =>
            /\ mpc' \in {"photo", "fallback", "done_msg"}
            /\ mpc' = "done_msg" =>
                  PhotoItems(events') =
                      sorted_by_timestamp(allowed_items(kw_items, cfg.max_telegram_messages_per_item))
       /\ (mpc = "kw_sleep" /\ mpc' # "finally_save") => (mpc' = "for_kw" /\ kw_i' = kw_i + 1)
      ]_vars

\* a photo and its fallback message both failed, the next item was still
\* sent, and the batch was completed
LaterPhotoSentAfterFailure ==
    /\ mpc = "kw_sleep"
    /\ \E i, j, k \in 1..Len(events) :
          /\ i < j /\ j < k
          /\ events[i].kind = "photo" /\ events[i].outcome = "raised"
          /\ events[j].kind = "fallback" /\ events[j].outcome = "raised"
          /\ events[k].kind = "photo" /\ events[k].item # events[i].item

\* C13: whenever the daily summary job runs, its message goes out with the
\* counts gathered since the last reset and daily_counts is empty right after,
\* before the next keyword is searched, so that no count is reported twice.
SummaryResetsCounts ==
    [][(mpc = "run_pending" /\ mpc' \in {"cycle_sleep", "except"} /\ summary'.ran) =>
          /\ summary'.counts = daily_counts
          /\ daily_counts' = <<>>]_vars

\* C14: of two listings with the same signature among those returned for one
\* keyword, over all its terms and within one page, the later has a strictly
\* lower price: a repeat at the same or a higher price is not returned again.
RepeatsOnlyCheaper ==
    \A i, j \in 1..Len(kw_items) :
        (/\ i < j
         /\ signature(kw_items[i].title, kw_items[i].img_url)
              = signature(kw_items[j].title, kw_items[j].img_url))
        => kw_items[j].numeric_price < kw_items[i].numeric_price

\* a listing came back twice for one keyword: from one term, and cheaper from
\* the next term
ReturnedAgainCheaper ==
    \E i, j \in 1..Len(kw_items) :
        /\ i < j
        /\ kw_items[i].title = kw_items[j].title
        /\ kw_items[i].timestamp < kw_items[j].timestamp
        /\ kw_items[j].numeric_price < kw_items[i].numeric_price

\* an element the loop gets a price from
Parses(el) == el.ok /\ parse_price(el.text) # None

\* C15: a fetch that times out returns nothing and leaves the seen-set as it
\* was; an element that fails to parse or has no price adds nothing to the
\* seen-set or the result, and the other elements are processed as if it were
\* not on the page.
ScrapeFailuresLeaveSeenSet ==
    last_op.op = "fetch" =>
        IF last_op.outcome = "timeout"
        THEN new_items = <<>> /\ seen_items = seen_before
        ELSE LET r == fetch_items(last_op.kw.term, seen_before, FALSE, SelectSeq(snapshot, Parses),
                                  last_op.kw.price_min, last_op.kw.price_max,
                                  last_op.kw.title_must_contain, now)
             IN  /\ seen_items = r.seen
                 /\ new_items = r.new
                 /\ \A i \in 1..Len(snapshot) :
                       (~Parses(snapshot[i]) /\ ~HasKey(seen_before.items,
                                                        signature(snapshot[i].title, snapshot[i].img))
                        /\ \A j \in 1..Len(snapshot) : Parses(snapshot[j]) =>
                              snapshot[j].title # snapshot[i].title)
                       => ~HasKey(seen_items.items, signature(snapshot[i].title, snapshot[i].img))

\* the element the loop met first raised, and the one after it was still
\* taken as new
ElementAfterBadOneAccepted ==
    /\ last_op.op = "fetch" /\ last_op.outcome = "ok"
    /\ Len(snapshot) = 2
    /\ ~snapshot[2].ok
    /\ Parses(snapshot[1])
    /\ Len(new_items) = 1
    /\ HasKey(seen_items.items, signature(snapshot[1].title, snapshot[1].img))
    /\ ~HasKey(seen_before.items, signature(snapshot[1].title, snapshot[1].img))

\* C16: of two consecutive channel calls made by different threads, the later
\* is dispatched at least telegram_min_delay after the earlier.
MinDelayAcrossThreads ==
    (Len(dispatches) = 2 /\ dispatches[1].thread # dispatches[2].thread)
    => Gap >= cfg.telegram_min_delay

\* C17: after a 429 on attempt a with Retry-After r (0 when absent) the call
\* sleeps max(r, telegram_min_delay) * telegram_backoff_factor^a and makes the
\* next attempt only after that; so the sleep is at least telegram_min_delay
\* when the factor is 1 or more, and at least 6 for r = 3, factor 2 and a = 1.
BackoffWait ==
    [][\A t \in Threads :
          /\ (pc[t] = "inflight" /\ pc'[t] = "backoff") =>
                LET w == wake_at'[t] - now
                    r == last_retry_after'
                    a == attempt[t]
                IN  /\ w = Max(r, cfg.telegram_min_delay) * Pow(cfg.telegram_backoff_factor, a)
                    /\ cfg.telegram_backoff_factor >= 1 => w >= cfg.telegram_min_delay
                    /\ (r = 3 /\ cfg.telegram_backoff_factor = 2 /\ a = 1) => w >= 6
          /\ (pc[t] = "backoff" /\ pc'[t] # "backoff") =>
                (now >= wake_at[t] /\ attempt'[t] = attempt[t] + 1)
      ]_vars

\* the second attempt of a send got a 429 with Retry-After 3 under factor 2
\* and the call is sleeping 6 ticks or more
SecondBackoffDoubled ==
    /\ pc[MainThread] = "backoff"
    /\ attempt[MainThread] = 1
    /\ last_retry_after = 3
    /\ cfg.telegram_backoff_factor = 2
    /\ wake_at[MainThread] - dispatches[Len(dispatches)].at >= 6

\* C18: no failure of a shutdown step leaves _run as an exception, and every
\* shutdown step is attempted whichever of the others failed: the final save,
\* closing the browser when there is one, and the stopped message.
ShutdownBestEffort ==
    Terminated =>
        /\ ~raised
        /\ Attempted("save") \/ Attempted("save_failed")
        /\ driver # "None" => (Attempted("quit") \/ Attempted("quit_failed"))
        /\ Attempted("stopped") \/ Attempted("stopped_failed")

\* the channel calls of one batch are in order: the announcement first and
\* once, the photos by timestamp, the completion message last
OrderedBatch(evs) ==
    /\ \A i \in 1..Len(evs) : evs[i].kind = "announce" <=> i = 1
    /\ Len(evs) > 1 => evs[1].outcome = "returned"
    /\ \A i, j \in 1..Len(evs) :
          (i < j /\ evs[i].kind = "photo" /\ evs[j].kind = "photo")
          => evs[i].item.timestamp <= evs[j].item.timestamp
    /\ \A i \in 1..Len(evs) : evs[i].kind = "done" => i = Len(evs)

\* C19: the photos of a batch go out oldest timestamp first, after the
\* announcement and before the completion message, and the batches follow the
\* order of cfg.keywords, each finished before the next begins.
NotificationOrder ==
    [][/\ OrderedBatch(events')
       /\ (events' # events /\ events' # <<>>) =>
             /\ kw_i' = kw_i
             /\ Len(events') = Len(events) + 1
             /\ SubSeq(events', 1, Len(events)) = events
       /\ kw_i' # kw_i => (kw_i' = kw_i + 1 \/ (kw_i' = 1 /\ kw_i = Len(cfg.keywords) + 1))
       /\ (mpc = "done_msg" /\ mpc' = "kw_sleep") =>
             PhotoItems(events) =
                 sorted_by_timestamp(allowed_items(kw_items, cfg.max_telegram_messages_per_item))
      ]_vars

\* a batch of two listings found at different times went out whole: the
\* announcement, the older photo, the newer photo, the completion message
BatchSentOldestFirst ==
    /\ mpc = "kw_sleep"
    /\ Len(events) = 4
    /\ events[2].kind = "photo" /\ events[3].kind = "photo"
    /\ events[2].item.timestamp < events[3].item.timestamp
    /\ events[4].kind = "done" /\ events[4].outcome = "returned"

\* one search per term of every keyword, in the order of cfg.keywords
RECURSIVE SearchesOf(_)
SearchesOf(keywords) ==
    IF keywords = <<>>
    THEN <<>>
    ELSE [i \in 1..Len(terms(keywords[1].kw_cfg)) |-> keywords[1].display_name]
         \o SearchesOf(Tail(keywords))

\* the records of after that before does not hold as they are
UpdatedIn(before, after) ==
    {after.items[i] : i \in {j \in 1..Len(after.items) :
        ~(HasKey(before.items, after.items[j].sig)
          /\ Get(before.items, after.items[j].sig) = after.items[j])}}

\* the file holds the record as the seen-set does
Persisted(rec, file) ==
    /\ file.kind = "object"
    /\ HasKey(file.items, rec.sig)
    /\ Get(file.items, rec.sig) = rec

\* the step that ends a full cycle: the sleep of line 88 and the count of line 89
CycleCompletes == mpc = "cycle_sleep" /\ cycle_count' = cycle_count + 1

\* the cycle searched every keyword, then saved once, then ran the scheduler
SearchedSavedChecked == cycle_log = SearchesOf(cfg.keywords) \o <<"save", "run_pending">>

\* the browser session is replaced, or the attempt fails, exactly after every
\* CYCLES_BEFORE_RESTART-th cycle
RestartOnlyWhenDue ==
    ((\E i \in 1..Len(cycle_log') : cycle_log'[i] = "restart") \/ mpc' = "except")
        <=> cycle_count' % CYCLES_BEFORE_RESTART = 0

CountOf(counts, display_name) ==
    IF \E i \in 1..Len(counts) : counts[i].name = display_name
    THEN counts[CHOOSE i \in 1..Len(counts) : counts[i].name = display_name].count
    ELSE 0

\* the step in which the daily summary job runs and builds its lines
SummaryBuilt == mpc = "run_pending" /\ mpc' \in {"cycle_sleep", "except"} /\ summary'.ran

\* C21: when the daily summary is built, the count of every keyword is the
\* number of its send_photo calls that returned since the counts were last
\* cleared.
DailyCountsAreDeliveries ==
    [][SummaryBuilt =>
          \A i \in 1..Len(cfg.keywords) :
              CountOf(summary'.counts, cfg.keywords[i].display_name)
                  = CountOf(delivered, cfg.keywords[i].display_name)
      ]_vars

\* the step in which save_seen_items writes the file, at the end of a cycle or
\* in the shutdown
SeenSetPersisted ==
    /\ mpc \in {"save", "finally_save"}
    /\ last_op'.op = "save" /\ last_op'.outcome = "ok"

\* C22: when the seen-set is written to the file, send_photo has been called
\* for every item fetch_items accepted and recorded since the process started.
AcceptedItemsNotifiedBeforeSave ==
    [][SeenSetPersisted => unsent = {}]_vars

\* the step is a fetch_items call whose last element reached the dedup step
DedupStep == last_op'.op = "fetch" /\ probe'.stage = "dedup"

\* C23: save_seen_items leaves seen_items as it is; a signature the write left
\* out of the file and the process still holds is not returned again at the
\* same or a higher price; a load brings back none of the signatures left out,
\* and the first sighting of such a signature after the load is returned and
\* recorded like a new listing.
EvictionOnlyInFile ==
    [][/\ last_op'.op = "save" => seen_items' = seen_items
       /\ (DedupStep /\ ProbeSig' \in evicted /\ probe'.before # NoRecord
              /\ ProbePrice' >= probe'.before.price)
          => (~probe'.returned /\ Stored(seen_items', ProbeSig') = probe'.before)
       /\ (proc = "init" /\ proc' = "running")
          => \A sig \in evicted : ~HasKey(seen_items'.items, sig)
       /\ (DedupStep /\ ProbeSig' \in evicted /\ probe'.before = NoRecord)
          => /\ probe'.returned
             /\ Stored(seen_items', ProbeSig').price = ProbePrice'
      ]_vars

\* a listing whose signature an earlier run of the process left out of the
\* file is returned again at the highest price
EvictedReturnedAfterRestart ==
    /\ Fetched /\ probe.stage = "dedup"
    /\ ProbeSig \in evicted
    /\ probe.before = NoRecord
    /\ probe.returned
    /\ ProbePrice = MaxPrice

\* the process wrote a file without its oldest signature and then did not
\* return a listing of that signature at the stored price
EvictedSuppressedInSameRun ==
    /\ Fetched /\ probe.stage = "dedup"
    /\ ProbeSig \in evicted
    /\ first_seen # <<>> /\ first_seen[1] = ProbeSig
    /\ disk.kind = "object" /\ disk.items # <<>> /\ ~HasKey(disk.items, ProbeSig)
    /\ ProbePrice >= probe.before.price /\ probe.before # NoRecord
    /\ ~probe.returned
====
